---- MODULE Spec2Model ----
(***************************************************************************)
(* Model of package treemap (src/treemap/treemap.go): a generic treemap    *)
(* backed by a Left-Leaning 2-3 Red-Black tree, with an iterator that      *)
(* walks the tree through parent back-references.                          *)
(*                                                                         *)
(* The heap of nodes is the sequence `nodes`; a *node is an index into it  *)
(* and NIL (0) is the nil pointer.  A nil dereference is a panic: the      *)
(* operation stops where it is and the program takes no further step.      *)
(***************************************************************************)
EXTENDS Integers, Sequences, FiniteSets, TLC

\* ---- bounds of the model ------------------------------------------------
MaxKey == 4        \* keys are 0 .. MaxKey-1
MaxVal == 2        \* values are 1 .. MaxVal (0 is the zero value of V)
MaxInserts == 4    \* number of Insert calls explored

Keys == 0 .. (MaxKey - 1)
Vals == 1 .. MaxVal

NIL == 0
ZeroKey == 0
ZeroVal == 0

red == TRUE
black == FALSE

VARIABLES
    nodes,       \* heap: nodes[n] = [key, value, color, left, right, parent]
    root,        \* TreeMap.root
    length,      \* TreeMap.length
    comparator,  \* TreeMap.comparator: "nil", "default" (New), "func"
                 \* (WithCompareFunc) or "comparer" (the closure of WithComparer)
    comparer,    \* the Comparer the closure of WithComparer has captured
    calls,       \* history: the number of Insert calls made
    it,          \* an Iterator has been obtained from the tree
    current,     \* Iterator.current
    ret,         \* what the last call returned (NoRet: nothing)
    panicked,    \* the last call dereferenced nil
    written      \* history: written[k] is the val of the last Insert(k, val), 0 if none

vars == <<nodes, root, length, comparator, comparer, calls, it, current, ret, panicked, written>>

\* ---- ordering strategy --------------------------------------------------
defaultComparator_noEqual(a, b) ==
    IF a < b THEN -1 ELSE 1

defaultComparator(a, b) ==
    IF a < b THEN -1
    ELSE IF a > b THEN 1
    ELSE 0

\* len(k) of the string keys given to the custom comparator: not monotone
\* in the natural order of the keys, and equal for some distinct keys.
StrLen(k) == (k % 3) + 1

sortByStringLenFunc(a, b) ==
    IF StrLen(a) < StrLen(b) THEN -1
    ELSE IF StrLen(a) > StrLen(b) THEN 1
    ELSE 0

\* (u *user) CompareTo(target *user): the keys' own comparison, by height.
CompareTo(u, target) ==
    IF u = target THEN 0
    ELSE IF u < target THEN -1
    ELSE 1

\* The closure WithComparer builds: func(a, b K) int { return comparer.CompareTo(b) }
compareFunc(c, a, b) == CompareTo(c, b)

\* t.comparator(a, b)
compare(a, b) ==
    IF comparator = "default" THEN defaultComparator(a, b)
    ELSE IF comparator = "func" THEN sortByStringLenFunc(a, b)
    ELSE compareFunc(comparer, a, b)

\* ---- nodes --------------------------------------------------------------
newNode(k, v, c) ==
    [key |-> k, value |-> v, color |-> c, left |-> NIL, right |-> NIL, parent |-> NIL]

isRed(h, n) ==
    IF n = NIL THEN FALSE ELSE h[n].color

\* A rotation is given the heap h and the node n and returns the heap after
\* it and the new root of the subtree.  Its statements are applied to the heap
\* one after the other, in the order of the code.
rotateLeft_keepColors(h, n) ==
    LET cur == h[n].right
        s1(g) == [g EXCEPT ![cur].parent = g[n].parent]
        s2(g) == [g EXCEPT ![n].right = g[cur].left]
        s3(g) == IF g[n].right # NIL THEN [g EXCEPT ![g[n].right].parent = n] ELSE g
        s4(g) == [g EXCEPT ![cur].left = n]
        s5(g) == IF g[cur].left # NIL THEN [g EXCEPT ![g[cur].left].parent = cur] ELSE g
    IN  [h |-> s5(s4(s3(s2(s1(h))))), n |-> cur]

rotateLeft_colorOrder(h, n) ==
    LET cur == h[n].right
        s1(g) == [g EXCEPT ![cur].parent = g[n].parent]
        s2(g) == [g EXCEPT ![n].right = g[cur].left]
        s3(g) == IF g[n].right # NIL THEN [g EXCEPT ![g[n].right].parent = n] ELSE g
        s4(g) == [g EXCEPT ![cur].left = n]
        s5(g) == IF g[cur].left # NIL THEN [g EXCEPT ![g[cur].left].parent = cur] ELSE g
        s6(g) == [g EXCEPT ![cur].color = g[g[cur].left].color]
        s7(g) == [g EXCEPT ![g[cur].left].color = red]
    IN  [h |-> s6(s7(s5(s4(s3(s2(s1(h))))))), n |-> cur]

rotateLeft(h, n) ==
    LET cur == h[n].right
        s1(g) == [g EXCEPT ![cur].parent = g[n].parent]
        s2(g) == [g EXCEPT ![n].right = g[cur].left]
        s3(g) == IF g[n].right # NIL THEN [g EXCEPT ![g[n].right].parent = n] ELSE g
        s4(g) == [g EXCEPT ![cur].left = n]
        s5(g) == IF g[cur].left # NIL THEN [g EXCEPT ![g[cur].left].parent = cur] ELSE g
        s6(g) == [g EXCEPT ![cur].color = g[g[cur].left].color]
        s7(g) == [g EXCEPT ![g[cur].left].color = red]
    IN  [h |-> s7(s6(s5(s4(s3(s2(s1(h))))))), n |-> cur]

rotateRight_staleParent(h, n) ==
    LET cur == h[n].left
        s1(g) == [g EXCEPT ![n].left = g[cur].right]
        s2(g) == IF g[n].left # NIL THEN [g EXCEPT ![g[n].left].parent = n] ELSE g
        s3(g) == [g EXCEPT ![cur].parent = g[n].parent]
        s4(g) == [g EXCEPT ![cur].right = n]
        s6(g) == [g EXCEPT ![cur].color = g[g[cur].right].color]
        s7(g) == [g EXCEPT ![g[cur].right].color = red]
    IN  [h |-> s7(s6(s4(s3(s2(s1(h)))))), n |-> cur]

rotateRight_returnsH(h, n) ==
    LET cur == h[n].left
        s1(g) == [g EXCEPT ![n].left = g[cur].right]
        s2(g) == IF g[n].left # NIL THEN [g EXCEPT ![g[n].left].parent = n] ELSE g
        s3(g) == [g EXCEPT ![cur].parent = g[n].parent]
        s4(g) == [g EXCEPT ![cur].right = n]
        s5(g) == IF g[cur].right # NIL THEN [g EXCEPT ![g[cur].right].parent = cur] ELSE g
        s6(g) == [g EXCEPT ![cur].color = g[g[cur].right].color]
        s7(g) == [g EXCEPT ![g[cur].right].color = red]
    IN  [h |-> s7(s6(s5(s4(s3(s2(s1(h))))))), n |-> n]

rotateRight(h, n) ==
    LET cur == h[n].left
        s1(g) == [g EXCEPT ![n].left = g[cur].right]
        s2(g) == IF g[n].left # NIL THEN [g EXCEPT ![g[n].left].parent = n] ELSE g
        s3(g) == [g EXCEPT ![cur].parent = g[n].parent]
        s4(g) == [g EXCEPT ![cur].right = n]
        s5(g) == IF g[cur].right # NIL THEN [g EXCEPT ![g[cur].right].parent = cur] ELSE g
        s6(g) == [g EXCEPT ![cur].color = g[g[cur].right].color]
        s7(g) == [g EXCEPT ![g[cur].right].color = red]
    IN  [h |-> s7(s6(s5(s4(s3(s2(s1(h))))))), n |-> cur]

flipColors_skipsRight(h, n) ==
    LET s1(g) == [g EXCEPT ![n].color = ~g[n].color]
        s2(g) == [g EXCEPT ![g[n].left].color = ~g[g[n].left].color]
    IN  s2(s1(h))

flipColors(h, n) ==
    LET s1(g) == [g EXCEPT ![n].color = ~g[n].color]
        s2(g) == [g EXCEPT ![g[n].left].color = ~g[g[n].left].color]
        s3(g) == [g EXCEPT ![g[n].right].color = ~g[g[n].right].color]
    IN  s3(s2(s1(h)))

\* ---- Insert -------------------------------------------------------------
\* The three fixes insert applies to cur on the way back up, in order; s is
\* the heap and the current root of the subtree.
fixLeft(s) ==
    IF isRed(s.h, s.h[s.n].right) /\ ~isRed(s.h, s.h[s.n].left)
    THEN rotateLeft(s.h, s.n) ELSE s

fixRight(s) ==
    IF isRed(s.h, s.h[s.n].left) /\ isRed(s.h, s.h[s.h[s.n].left].left)
    THEN rotateRight(s.h, s.n) ELSE s

fixFlip(s) ==
    IF isRed(s.h, s.h[s.n].left) /\ isRed(s.h, s.h[s.n].right)
    THEN [h |-> flipColors(s.h, s.n), n |-> s.n] ELSE s

fixup_noRotateLeft(h, cur) ==
    fixFlip(fixRight([h |-> h, n |-> cur]))

fixup_noRotateRight(h, cur) ==
    fixFlip(fixLeft([h |-> h, n |-> cur]))

fixup(h, cur) ==
    fixFlip(fixRight(fixLeft([h |-> h, n |-> cur])))

\* cur.left = r.n; cur.left.parent = cur   (and the same on the right)
attachLeft(r, cur) ==
    LET s1(g) == [g EXCEPT ![cur].left = r.n]
        s2(g) == [g EXCEPT ![g[cur].left].parent = cur]
    IN  s2(s1(r.h))

attachRight(r, cur) ==
    LET s1(g) == [g EXCEPT ![cur].right = r.n]
        s2(g) == [g EXCEPT ![g[cur].right].parent = cur]
    IN  s2(s1(r.h))

RECURSIVE insert_keepValue(_, _, _, _)
insert_keepValue(h, cur, k, v) ==
    IF cur = NIL
    THEN [h |-> Append(h, newNode(k, v, red)), n |-> Len(h) + 1]
    ELSE IF compare(k, h[cur].key) < 0
    THEN fixup(attachLeft(insert_keepValue(h, h[cur].left, k, v), cur), cur)
    ELSE IF compare(k, h[cur].key) > 0
    THEN fixup(attachRight(insert_keepValue(h, h[cur].right, k, v), cur), cur)
    ELSE fixup(h, cur)

RECURSIVE insert_replacesKey(_, _, _, _)
insert_replacesKey(h, cur, k, v) ==
    IF cur = NIL
    THEN [h |-> Append(h, newNode(k, v, red)), n |-> Len(h) + 1]
    ELSE IF compare(k, h[cur].key) < 0
    THEN fixup(attachLeft(insert_replacesKey(h, h[cur].left, k, v), cur), cur)
    ELSE IF compare(k, h[cur].key) > 0
    THEN fixup(attachRight(insert_replacesKey(h, h[cur].right, k, v), cur), cur)
    ELSE fixup([h EXCEPT ![cur].key = k, ![cur].value = v], cur)

RECURSIVE insert(_, _, _, _)
insert(h, cur, k, v) ==
    IF cur = NIL
    THEN [h |-> Append(h, newNode(k, v, red)), n |-> Len(h) + 1]
    ELSE IF compare(k, h[cur].key) < 0
    THEN fixup(attachLeft(insert(h, h[cur].left, k, v), cur), cur)
    ELSE IF compare(k, h[cur].key) > 0
    THEN fixup(attachRight(insert(h, h[cur].right, k, v), cur), cur)
    ELSE fixup([h EXCEPT ![cur].value = v], cur)

\* t.root = t.insert(t.root, key, val); t.root.color = black
insertAtRoot_keepRootColor(h, rt, k, v) ==
    insert(h, rt, k, v)

insertAtRoot(h, rt, k, v) ==
    LET blacken(r) == [h |-> [r.h EXCEPT ![r.n].color = black], n |-> r.n]
    IN  blacken(insert(h, rt, k, v))

\* ---- Search -------------------------------------------------------------
RECURSIVE searchFrom_leftOnly(_, _, _)
searchFrom_leftOnly(h, cur, k) ==
    IF cur = NIL THEN [value |-> ZeroVal, ok |-> FALSE]
    ELSE IF compare(k, h[cur].key) = 0 THEN [value |-> h[cur].value, ok |-> TRUE]
    ELSE searchFrom_leftOnly(h, h[cur].left, k)

RECURSIVE searchFrom(_, _, _)
searchFrom(h, cur, k) ==
    IF cur = NIL THEN [value |-> ZeroVal, ok |-> FALSE]
    ELSE LET c == compare(k, h[cur].key)
         IN  IF c = 0 THEN [value |-> h[cur].value, ok |-> TRUE]
             ELSE IF c < 0 THEN searchFrom(h, h[cur].left, k)
             ELSE searchFrom(h, h[cur].right, k)

\* ---- Iterator -----------------------------------------------------------
\* for cur.left != nil { cur = cur.left }
RECURSIVE leftmost(_, _)
leftmost(h, cur) ==
    IF h[cur].left # NIL THEN leftmost(h, h[cur].left) ELSE cur

\* for cur.right != nil { cur = cur.right }
RECURSIVE rightmost(_, _)
rightmost(h, cur) ==
    IF h[cur].right # NIL THEN rightmost(h, h[cur].right) ELSE cur

\* Each iterator operation yields the new it.current, the boolean it returns
\* and whether it dereferenced nil (it.current is then left as it was).
begin_atRoot(h, rt, cur) ==
    IF rt = NIL THEN [current |-> cur, ok |-> FALSE, panic |-> TRUE]
    ELSE [current |-> rt, ok |-> TRUE, panic |-> FALSE]

begin(h, rt, cur) ==
    IF rt = NIL THEN [current |-> cur, ok |-> FALSE, panic |-> TRUE]
    ELSE [current |-> leftmost(h, rt), ok |-> TRUE, panic |-> FALSE]

last(h, rt, cur) ==
    IF rt = NIL THEN [current |-> cur, ok |-> FALSE, panic |-> TRUE]
    ELSE [current |-> rightmost(h, rt), ok |-> TRUE, panic |-> FALSE]

\* for cur == cur.parent.right { cur = cur.parent; if cur.parent == nil {...} }
RECURSIVE nextUp(_, _, _)
nextUp(h, cur, at) ==
    IF h[cur].parent = NIL THEN [current |-> at, ok |-> FALSE, panic |-> TRUE]
    ELSE IF cur = h[h[cur].parent].right
    THEN LET up == h[cur].parent
         IN  IF h[up].parent = NIL
             THEN [current |-> NIL, ok |-> FALSE, panic |-> FALSE]
             ELSE nextUp(h, up, at)
    ELSE [current |-> h[cur].parent, ok |-> TRUE, panic |-> FALSE]

next_noDescent(h, rt, cur) ==
    IF cur = NIL THEN begin(h, rt, cur)
    ELSE IF h[cur].right # NIL
    THEN [current |-> h[cur].right, ok |-> TRUE, panic |-> FALSE]
    ELSE nextUp(h, cur, cur)

next(h, rt, cur) ==
    IF cur = NIL THEN begin(h, rt, cur)
    ELSE IF h[cur].right # NIL
    THEN [current |-> leftmost(h, h[cur].right), ok |-> TRUE, panic |-> FALSE]
    ELSE nextUp(h, cur, cur)

\* for cur == cur.parent.left { cur = cur.parent; if cur.parent == nil {...} }
RECURSIVE prevUp(_, _, _)
prevUp(h, cur, at) ==
    IF h[cur].parent = NIL THEN [current |-> at, ok |-> FALSE, panic |-> TRUE]
    ELSE IF cur = h[h[cur].parent].left
    THEN LET up == h[cur].parent
         IN  IF h[up].parent = NIL
             THEN [current |-> NIL, ok |-> FALSE, panic |-> FALSE]
             ELSE prevUp(h, up, at)
    ELSE [current |-> h[cur].parent, ok |-> TRUE, panic |-> FALSE]

prev(h, rt, cur) ==
    IF cur = NIL THEN last(h, rt, cur)
    ELSE IF h[cur].left # NIL
    THEN [current |-> rightmost(h, h[cur].left), ok |-> TRUE, panic |-> FALSE]
    ELSE prevUp(h, cur, cur)

\* ---- the program --------------------------------------------------------
NoRet == [op |-> "none", ok |-> FALSE, value |-> 0]

Init ==
    /\ nodes = <<>>
    /\ root = NIL
    /\ length = 0
    /\ comparator \in {"default", "func"}
    /\ comparer = ZeroKey
    /\ calls = 0
    /\ it = FALSE
    /\ current = NIL
    /\ ret = NoRet
    /\ panicked = FALSE
    /\ written = [k \in Keys |-> ZeroVal]

\* ---- construction in custom mode ------------------------------------------
MaxOpts == 2             \* number of options given to NewWithComparator
MaxFirstInserts == 2     \* Insert calls explored from a construction on

\* An Option is what it stores in the container: WithCompareFunc(f) stores f
\* ("func" for a comparator function, "nil" for a nil one), WithComparer(c)
\* stores a closure over c.
WithCompareFunc(f) == [comparator |-> f, comparer |-> ZeroKey]

WithComparer(c) == [comparator |-> "comparer", comparer |-> c]

Options ==
    {WithCompareFunc(f) : f \in {"func", "nil"}} \cup {WithComparer(c) : c \in Keys}

OptSeqs == UNION {[1 .. n -> Options] : n \in 0 .. MaxOpts}

\* for _, opt := range opts { opt(t) }
applyOptions_firstOnly(t, opts) ==
    IF opts = <<>> THEN t ELSE Head(opts)

RECURSIVE applyOptions(_, _)
applyOptions(t, opts) ==
    IF opts = <<>> THEN t ELSE applyOptions(Head(opts), Tail(opts))

\* Before NewWithComparator is called there is no container.
InitConstruct ==
    /\ nodes = <<>>
    /\ root = NIL
    /\ length = 0
    /\ comparator = "nil"
    /\ comparer = ZeroKey
    /\ calls = 0
    /\ it = FALSE
    /\ current = NIL
    /\ ret = NoRet
    /\ panicked = FALSE
    /\ written = [k \in Keys |-> ZeroVal]

\* ret.ok: the error returned is nil and the container returned is not.
NewWithComparator(opts) ==
    /\ comparator = "nil" /\ ret = NoRet
    /\ LET made(t) == /\ comparator' = t.comparator
                      /\ comparer' = t.comparer
                      /\ ret' = [op |-> "NewWithComparator", ok |-> t.comparator # "nil", value |-> 0]
       IN  made(applyOptions(WithCompareFunc("nil"), opts))
    /\ nodes' = <<>>
    /\ root' = NIL
    /\ length' = 0
    /\ UNCHANGED <<calls, it, current, panicked, written>>

\* Go gives the numeric value of a pointer no meaning, so the heap is kept in
\* one canonical numbering: the nodes reachable from the root in preorder, then
\* any others in their old order.  The same tree built by two different
\* insertion orders is then one state.
RECURSIVE preorder(_, _)
preorder(h, n) ==
    IF n = NIL THEN <<>>
    ELSE <<n>> \o preorder(h, h[n].left) \o preorder(h, h[n].right)

RECURSIVE ascending(_)
ascending(S) ==
    IF S = {} THEN <<>>
    ELSE LET m == CHOOSE x \in S : \A y \in S : x <= y
         IN  <<m>> \o ascending(S \ {m})

renumber(r, cur) ==
    LET index(order, p) == IF p = NIL THEN NIL ELSE CHOOSE i \in DOMAIN order : order[i] = p
        others(reach) == ascending(DOMAIN r.h \ {reach[i] : i \in DOMAIN reach})
        complete(reach) == reach \o others(reach)
        moved(order) ==
            [h |-> [i \in DOMAIN order |->
                       [r.h[order[i]] EXCEPT !.left = index(order, @),
                                             !.right = index(order, @),
                                             !.parent = index(order, @)]],
             n |-> index(order, r.n),
             cur |-> index(order, cur)]
    IN  moved(complete(preorder(r.h, r.n)))

Insert_countsNewKeys(k, v) ==
    /\ ~panicked
    /\ calls < MaxInserts
    /\ LET stored(r) == nodes' = r.h /\ root' = r.n /\ current' = r.cur
       IN  stored(renumber(insertAtRoot(nodes, root, k, v), current))
    /\ length' = IF searchFrom(nodes, root, k).ok THEN length ELSE length + 1
    /\ ret' = NoRet
    /\ written' = [written EXCEPT ![k] = v]
    /\ calls' = calls + 1
    /\ UNCHANGED <<comparator, comparer, it, panicked>>

\* Insert, with the number of Insert calls explored capped at max.
InsertUpTo(k, v, max) ==
    /\ ~panicked
    /\ length < max
    /\ LET stored(r) == nodes' = r.h /\ root' = r.n /\ current' = r.cur
       IN  stored(renumber(insertAtRoot(nodes, root, k, v), current))
    /\ length' = length + 1
    /\ ret' = NoRet
    /\ written' = [written EXCEPT ![k] = v]
    /\ calls' = calls + 1
    /\ UNCHANGED <<comparator, comparer, it, panicked>>

Insert(k, v) == InsertUpTo(k, v, MaxInserts)

Search_insertsMissing(k) ==
    /\ ~panicked
    /\ LET r == searchFrom(nodes, root, k)
           stored(x) == nodes' = x.h /\ root' = x.n
       IN  /\ ret' = [op |-> "Search", ok |-> r.ok, value |-> r.value]
           /\ IF r.ok THEN UNCHANGED <<nodes, root>>
              ELSE stored(insertAtRoot(nodes, root, k, ZeroVal))
    /\ UNCHANGED <<length, comparator, comparer, calls, it, current, panicked, written>>

Search(k) ==
    /\ ~panicked
    /\ LET r == searchFrom(nodes, root, k)
       IN  ret' = [op |-> "Search", ok |-> r.ok, value |-> r.value]
    /\ UNCHANGED <<nodes, root, length, comparator, comparer, calls, it, current, panicked, written>>

Length ==
    /\ ~panicked
    /\ ret' = [op |-> "Length", ok |-> FALSE, value |-> length]
    /\ UNCHANGED <<nodes, root, length, comparator, comparer, calls, it, current, panicked, written>>

\* One step of the iterator: r is the outcome of the operation.
Moved(r) ==
    /\ current' = r.current
    /\ panicked' = r.panic
    /\ UNCHANGED <<nodes, root, length, comparator, comparer, calls, written>>

Iterator ==
    /\ ~panicked
    /\ it' = TRUE
    /\ Moved(begin(nodes, root, NIL))
    /\ ret' = NoRet

IteratorBegin_movesRoot ==
    /\ ~panicked /\ it /\ root # NIL
    /\ root' = leftmost(nodes, root)
    /\ current' = leftmost(nodes, root)
    /\ ret' = NoRet
    /\ UNCHANGED <<nodes, length, comparator, comparer, calls, it, panicked, written>>

IteratorBegin ==
    /\ ~panicked /\ it
    /\ Moved(begin(nodes, root, current))
    /\ ret' = NoRet
    /\ UNCHANGED it

IteratorLast ==
    /\ ~panicked /\ it
    /\ Moved(last(nodes, root, current))
    /\ ret' = NoRet
    /\ UNCHANGED it

IteratorEnd ==
    /\ ~panicked /\ it
    /\ Moved([current |-> NIL, ok |-> FALSE, panic |-> FALSE])
    /\ ret' = NoRet
    /\ UNCHANGED it

IteratorNext ==
    /\ ~panicked /\ it
    /\ LET r == next(nodes, root, current)
       IN  /\ Moved(r)
           /\ ret' = IF r.panic THEN NoRet ELSE [NoRet EXCEPT !.op = "Next", !.ok = r.ok]
    /\ UNCHANGED it

IteratorPrev ==
    /\ ~panicked /\ it
    /\ LET r == prev(nodes, root, current)
       IN  /\ Moved(r)
           /\ ret' = IF r.panic THEN NoRet ELSE [NoRet EXCEPT !.op = "Prev", !.ok = r.ok]
    /\ UNCHANGED it

IteratorKey ==
    /\ ~panicked /\ it
    /\ ret' = [op |-> "Key", ok |-> FALSE,
               value |-> IF current = NIL THEN ZeroKey ELSE nodes[current].key]
    /\ UNCHANGED <<nodes, root, length, comparator, comparer, calls, it, current, panicked, written>>

IteratorValue_returnsKey ==
    /\ ~panicked /\ it
    /\ ret' = [op |-> "Value", ok |-> FALSE,
               value |-> IF current = NIL THEN ZeroVal ELSE nodes[current].key]
    /\ UNCHANGED <<nodes, root, length, comparator, comparer, calls, it, current, panicked, written>>

IteratorValue ==
    /\ ~panicked /\ it
    /\ ret' = [op |-> "Value", ok |-> FALSE,
               value |-> IF current = NIL THEN ZeroVal ELSE nodes[current].value]
    /\ UNCHANGED <<nodes, root, length, comparator, comparer, calls, it, current, panicked, written>>

Next ==
    \/ \E k \in Keys, v \in Vals : Insert(k, v)
    \/ \E k \in Keys : Search(k)
    \/ Length
    \/ Iterator
    \/ IteratorBegin
    \/ IteratorLast
    \/ IteratorEnd
    \/ IteratorNext
    \/ IteratorPrev
    \/ IteratorKey
    \/ IteratorValue

Spec == Init /\ [][Next]_vars

\* The container used without an iterator.
NextTree ==
    \/ \E k \in Keys, v \in Vals : Insert(k, v)
    \/ \E k \in Keys : Search(k)
    \/ Length

TreeSpec == Init /\ [][NextTree]_vars

\* The container used through its iterator.
NextIter ==
    \/ \E k \in Keys, v \in Vals : Insert(k, v)
    \/ Iterator
    \/ IteratorBegin
    \/ IteratorLast
    \/ IteratorEnd
    \/ IteratorNext
    \/ IteratorPrev
    \/ IteratorKey
    \/ IteratorValue

IterSpec == Init /\ [][NextIter]_vars

\* The container grown by Insert calls alone, over more keys; every call
\* stores the same value, which no rotation or color flip reads.
MaxGrowKey == 8    \* keys are 0 .. MaxGrowKey-1
MaxGrow == 8       \* number of Insert calls explored

GrowKeys == 0 .. (MaxGrowKey - 1)

InitGrow ==
    /\ nodes = <<>>
    /\ root = NIL
    /\ length = 0
    /\ comparator = "default"
    /\ comparer = ZeroKey
    /\ calls = 0
    /\ it = FALSE
    /\ current = NIL
    /\ ret = NoRet
    /\ panicked = FALSE
    /\ written = [k \in GrowKeys |-> ZeroVal]

NextGrow ==
    \E k \in GrowKeys : InsertUpTo(k, MaxVal, MaxGrow)

GrowSpec == InitGrow /\ [][NextGrow]_vars

\* The container from its construction in custom mode on, through its first
\* Insert calls; without a comparator NewWithComparator has returned no
\* container and nothing can be called.
NextConstruct ==
    \/ \E opts \in OptSeqs : NewWithComparator(opts)
    \/ comparator # "nil" /\ calls < MaxFirstInserts /\ \E k \in Keys, v \in Vals : Insert(k, v)
    \/ comparator # "nil" /\ \E k \in Keys : Search(k)
    \/ comparator # "nil" /\ Length

ConstructSpec == InitConstruct /\ [][NextConstruct]_vars

\* ---- what the properties speak of ---------------------------------------
\* The nodes of the subtree rooted at n.
RECURSIVE Subtree(_, _)
Subtree(h, n) ==
    IF n = NIL THEN {} ELSE {n} \cup Subtree(h, h[n].left) \cup Subtree(h, h[n].right)

TreeNodes == Subtree(nodes, root)

\* ---- package redblack ------------------------------------------------------------
\* The same tree without parent back-references: the parent field of its nodes
\* is never set.
redblack_CompareTo(source, target) ==
    IF source > target THEN 1
    ELSE IF source < target THEN -1
    ELSE 0

redblack_newNode(key, val, clr) ==
    [key |-> key, value |-> val, color |-> clr, left |-> NIL, right |-> NIL, parent |-> NIL]

redblack_IsRed(h, n) ==
    IF n = NIL THEN FALSE ELSE h[n].color

redblack_rotateLeft(h, n) ==
    LET x == h[n].right
        s1(g) == [g EXCEPT ![n].right = g[x].left]
        s2(g) == [g EXCEPT ![x].left = n]
        s3(g) == [g EXCEPT ![x].color = g[g[x].left].color]
        s4(g) == [g EXCEPT ![g[x].left].color = red]
    IN  [h |-> s4(s3(s2(s1(h)))), n |-> x]

redblack_rotateRight(h, n) ==
    LET x == h[n].left
        s1(g) == [g EXCEPT ![n].left = g[x].right]
        s2(g) == [g EXCEPT ![x].right = n]
        s3(g) == [g EXCEPT ![x].color = g[g[x].right].color]
        s4(g) == [g EXCEPT ![g[x].right].color = red]
    IN  [h |-> s4(s3(s2(s1(h)))), n |-> n]

redblack_flipColors(h, n) ==
    LET s1(g) == [g EXCEPT ![n].color = ~g[n].color]
        s2(g) == [g EXCEPT ![g[n].left].color = ~g[g[n].left].color]
        s3(g) == [g EXCEPT ![g[n].right].color = ~g[g[n].right].color]
    IN  s3(s2(s1(h)))

\* The three fixes of insert at h, in order; s is the heap and the node.
redblack_fixup(s) ==
    LET left(a) == IF redblack_IsRed(a.h, a.h[a.n].right) /\ ~redblack_IsRed(a.h, a.h[a.n].left)
                   THEN redblack_rotateLeft(a.h, a.n) ELSE a
        right(a) == IF redblack_IsRed(a.h, a.h[a.n].left) /\ redblack_IsRed(a.h, a.h[a.h[a.n].left].left)
                    THEN redblack_rotateRight(a.h, a.n) ELSE a
        flip(a) == IF redblack_IsRed(a.h, a.h[a.n].left) /\ redblack_IsRed(a.h, a.h[a.n].right)
                   THEN [h |-> redblack_flipColors(a.h, a.n), n |-> a.n] ELSE a
    IN  flip(right(left(s)))

RECURSIVE redblack_insert(_, _, _, _)
redblack_insert(h, cur, k, v) ==
    LET setLeft(r) == [h |-> [r.h EXCEPT ![cur].left = r.n], n |-> cur]
        setRight(r) == [h |-> [r.h EXCEPT ![cur].right = r.n], n |-> cur]
    IN  IF cur = NIL
        THEN [h |-> Append(h, redblack_newNode(k, v, red)), n |-> Len(h) + 1]
        ELSE IF redblack_CompareTo(k, h[cur].key) < 0
        THEN redblack_fixup(setLeft(redblack_insert(h, h[cur].left, k, v)))
        ELSE IF redblack_CompareTo(k, h[cur].key) > 0
        THEN redblack_fixup(setRight(redblack_insert(h, h[cur].right, k, v)))
        ELSE redblack_fixup([h |-> [h EXCEPT ![cur].value = v], n |-> cur])

\* Insert; the nodes no longer reachable from the root are dropped from the
\* heap, as the garbage collector drops them.
redblack_Insert(k, v) ==
    /\ calls < MaxGrow
    /\ LET blacken(r) == [h |-> [r.h EXCEPT ![r.n].color = black], n |-> r.n]
           kept(r) == /\ nodes' = SubSeq(r.h, 1, Cardinality(Subtree(r.h, r.n)))
                      /\ root' = r.n
       IN  kept(renumber(blacken(redblack_insert(nodes, root, k, v)), NIL))
    /\ written' = [written EXCEPT ![k] = v]
    /\ calls' = calls + 1
    /\ UNCHANGED <<length, comparator, comparer, it, current, ret, panicked>>

redblack_Next ==
    \E k \in GrowKeys : redblack_Insert(k, MaxVal)

redblack_Spec == InitGrow /\ [][redblack_Next]_vars

\* ---- package rbtree ------------------------------------------------------------
\* The same tree without parent back-references: the parent field of its nodes
\* is never set.
rbtree_CompareTo(source, target) ==
    IF source > target THEN 1
    ELSE IF source < target THEN -1
    ELSE 0

rbtree_newNode(key, val, clr) ==
    [key |-> key, value |-> val, color |-> clr, left |-> NIL, right |-> NIL, parent |-> NIL]

rbtree_IsRed(h, n) ==
    IF n = NIL THEN FALSE ELSE h[n].color

rbtree_rotateLeft(h, n) ==
    LET x == h[n].right
        s1(g) == [g EXCEPT ![n].right = g[x].left]
        s2(g) == [g EXCEPT ![x].left = n]
        s3(g) == [g EXCEPT ![x].color = g[g[x].left].color]
        s4(g) == [g EXCEPT ![g[x].left].color = red]
    IN  [h |-> s4(s3(s2(s1(h)))), n |-> x]

rbtree_rotateRight(h, n) ==
    LET x == h[n].left
        s1(g) == [g EXCEPT ![n].left = g[x].right]
        s2(g) == [g EXCEPT ![x].right = n]
        s3(g) == [g EXCEPT ![x].color = g[g[x].right].color]
        s4(g) == [g EXCEPT ![g[x].right].color = red]
    IN  [h |-> s4(s3(s2(s1(h)))), n |-> x]

rbtree_flipColors(h, n) ==
    LET s1(g) == [g EXCEPT ![n].color = ~g[n].color]
        s2(g) == [g EXCEPT ![g[n].left].color = ~g[g[n].left].color]
        s3(g) == [g EXCEPT ![g[n].right].color = ~g[g[n].right].color]
    IN  s3(s2(s1(h)))

\* The three fixes of insert at h, in order; s is the heap and the node.
rbtree_fixup(s) ==
    LET left(a) == IF rbtree_IsRed(a.h, a.h[a.n].right) /\ ~rbtree_IsRed(a.h, a.h[a.n].left)
                   THEN rbtree_rotateLeft(a.h, a.n) ELSE a
        right(a) == IF rbtree_IsRed(a.h, a.h[a.n].left) /\ rbtree_IsRed(a.h, a.h[a.h[a.n].left].left)
                    THEN rbtree_rotateRight(a.h, a.n) ELSE a
        flip(a) == IF rbtree_IsRed(a.h, a.h[a.n].left) /\ rbtree_IsRed(a.h, a.h[a.n].right)
                   THEN [h |-> rbtree_flipColors(a.h, a.n), n |-> a.n] ELSE a
    IN  flip(right(left(s)))

RECURSIVE rbtree_insert(_, _, _, _)
rbtree_insert(h, cur, k, v) ==
    LET setLeft(r) == [h |-> [r.h EXCEPT ![cur].left = r.n], n |-> cur]
        setRight(r) == [h |-> [r.h EXCEPT ![cur].right = r.n], n |-> cur]
    IN  IF cur = NIL
        THEN [h |-> Append(h, rbtree_newNode(k, v, red)), n |-> Len(h) + 1]
        ELSE IF rbtree_CompareTo(k, h[cur].key) < 0
        THEN rbtree_fixup(setLeft(rbtree_insert(h, h[cur].left, k, v)))
        ELSE IF rbtree_CompareTo(k, h[cur].key) > 0
        THEN rbtree_fixup(setRight(rbtree_insert(h, h[cur].right, k, v)))
        ELSE rbtree_fixup([h |-> [h EXCEPT ![cur].value = v], n |-> cur])

\* Insert; the nodes no longer reachable from the root are dropped from the
\* heap, as the garbage collector drops them.
rbtree_Insert(k, v) ==
    /\ calls < MaxGrow
    /\ LET blacken(r) == [h |-> [r.h EXCEPT ![r.n].color = black], n |-> r.n]
           kept(r) == /\ nodes' = SubSeq(r.h, 1, Cardinality(Subtree(r.h, r.n)))
                      /\ root' = r.n
       IN  kept(renumber(blacken(rbtree_insert(nodes, root, k, v)), NIL))
    /\ written' = [written EXCEPT ![k] = v]
    /\ calls' = calls + 1
    /\ UNCHANGED <<length, comparator, comparer, it, current, ret, panicked>>

rbtree_Next ==
    \E k \in GrowKeys : rbtree_Insert(k, MaxVal)

rbtree_Spec == InitGrow /\ [][rbtree_Next]_vars

\* The order of the keys the tree was built for, stated on its own.
KeyBefore(a, b) ==
    IF comparator = "func" THEN StrLen(a) < StrLen(b) ELSE a < b

KeyEq(a, b) == ~KeyBefore(a, b) /\ ~KeyBefore(b, a)

\* The numbers of BLACK nodes on the paths from n down to an absent child.
RECURSIVE BlackCounts(_, _)
BlackCounts(h, n) ==
    IF n = NIL THEN {0}
    ELSE {c + (IF h[n].color = black THEN 1 ELSE 0) :
             c \in BlackCounts(h, h[n].left) \cup BlackCounts(h, h[n].right)}

\* ---- invariants of the tree ---------------------------------------------
\* C1: after every Insert (new or duplicate key, any order), the keys of every
\* node's left subtree are strictly before the node's key and the keys of its
\* right subtree strictly after it, under the tree's comparator.
C1_BSTOrdering ==
    \A n \in TreeNodes :
        /\ \A m \in Subtree(nodes, nodes[n].left) : KeyBefore(nodes[m].key, nodes[n].key)
        /\ \A m \in Subtree(nodes, nodes[n].right) : KeyBefore(nodes[n].key, nodes[m].key)

\* A tree of at least three keys, with both subtrees of the root present, on
\* which an Insert of a key already present has also been made.
C1_Witness ==
    /\ Cardinality(TreeNodes) >= 3
    /\ length > Cardinality(TreeNodes)
    /\ nodes[root].left # NIL /\ nodes[root].right # NIL

\* C2: after every Insert, every path from the root to an absent child crosses
\* the same number of BLACK nodes.
C2_BlackBalance ==
    Cardinality(BlackCounts(nodes, root)) = 1

\* A tree of black height 2 that also holds a RED node.
C2_Witness ==
    /\ BlackCounts(nodes, root) = {2}
    /\ \E n \in TreeNodes : isRed(nodes, n)

\* C3: after every Insert, no node has a RED right child.
C3_NoRedRight ==
    \A n \in TreeNodes : ~isRed(nodes, nodes[n].right)

\* A tree of four keys whose RED link is in the root's right subtree, leaning
\* left, as the left rotation leaves it when keys arrive in ascending order.
C3_Witness ==
    /\ Cardinality(TreeNodes) = 4
    /\ nodes[root].right # NIL
    /\ isRed(nodes, nodes[nodes[root].right].left)

\* C4: after every Insert, no node has a RED left child whose own left child
\* is RED too.
C4_NoTwoRedLefts ==
    \A n \in TreeNodes :
        ~(isRed(nodes, nodes[n].left) /\ isRed(nodes, nodes[nodes[n].left].left))

\* A tree of four keys whose RED link is in the root's left subtree: the
\* lowest key hangs RED under a BLACK left child of the root.
C4_Witness ==
    /\ Cardinality(TreeNodes) = 4
    /\ nodes[root].left # NIL
    /\ ~isRed(nodes, nodes[root].left)
    /\ isRed(nodes, nodes[nodes[root].left].left)

\* C5: after every completed Insert the tree has a root and the root is BLACK.
C5_RootBlack ==
    length >= 1 => (root # NIL /\ nodes[root].color = black)

\* Right after an Insert whose color flip reached the root: the root has two
\* BLACK children and was turned BLACK again.
C5_Witness ==
    /\ root # NIL
    /\ nodes[root].left # NIL /\ nodes[root].right # NIL
    /\ ~isRed(nodes, nodes[root].left) /\ ~isRed(nodes, nodes[root].right)
    /\ Cardinality(TreeNodes) = 3

\* ---- Search and Insert ---------------------------------------------------
\* The keys ever given to Insert, and whether the Insert calls so far had
\* pairwise distinct keys (no two of them equal under the tree's comparator).
InsertedKeys == {k \in DOMAIN written : written[k] # ZeroVal}

DistinctInserts ==
    /\ length = Cardinality(InsertedKeys)
    /\ \A a, b \in InsertedKeys : a # b => ~KeyEq(a, b)

\* The keys stored in the tree.
KeysPresent(h, rt) == {h[n].key : n \in Subtree(h, rt)}

\* C6: after Insert calls with pairwise distinct keys, Search(k) returns
\* (v, true) for every inserted pair (k, v) and (zero value, false) for every
\* key never inserted, the empty tree included.  Keys are told apart as the
\* tree tells them apart: by its comparator.
C6_InsertThenSearch ==
    DistinctInserts =>
        \A k \in Keys :
            searchFrom(nodes, root, k) =
                IF \E j \in InsertedKeys : KeyEq(j, k)
                THEN [value |-> written[CHOOSE j \in InsertedKeys : KeyEq(j, k)], ok |-> TRUE]
                ELSE [value |-> ZeroVal, ok |-> FALSE]

\* Three distinct keys have been inserted, not all with the same value, and
\* Search has just found one of them.
C6_Witness ==
    /\ DistinctInserts
    /\ Cardinality(InsertedKeys) = 3
    /\ ret.op = "Search" /\ ret.ok /\ ret.value = MaxVal
    /\ \E k \in InsertedKeys : written[k] # MaxVal

\* C7: Insert(k, v2) on a tree that holds a key equal to k makes Search(k)
\* return (v2, true), leaves the set of keys present as it was, and leaves the
\* result of Search for every other key as it was.
C7_OverwriteStep ==
    length' = length + 1 =>
        \A k \in Keys, v2 \in Vals :
            (/\ written' = [written EXCEPT ![k] = v2]
             /\ \E n \in TreeNodes : KeyEq(nodes[n].key, k)
             /\ Insert(k, v2))
            => /\ searchFrom(nodes', root', k) = [value |-> v2, ok |-> TRUE]
               /\ KeysPresent(nodes', root') = KeysPresent(nodes, root)
               /\ \A j \in Keys :
                      ~KeyEq(j, k) =>
                          searchFrom(nodes', root', j) = searchFrom(nodes, root, j)

C7_Overwrite == [][C7_OverwriteStep]_vars

\* A key of a three-key tree has been inserted again with another value, and
\* Search has returned the new value.
C7_Witness ==
    /\ Cardinality(TreeNodes) = 3
    /\ length = 4
    /\ ret.op = "Search" /\ ret.ok
    /\ \E n \in TreeNodes :
           /\ nodes[n].value = ret.value
           /\ \E k \in InsertedKeys :
                  k # nodes[n].key /\ KeyEq(k, nodes[n].key) /\ written[k] = ret.value

\* ---- Iterator -----------------------------------------------------------
\* The outcomes of j successive calls of Next from position cur, stopping at
\* a call that dereferences nil.
RECURSIVE nextTimes(_, _, _, _)
nextTimes(h, rt, cur, j) ==
    IF j = 0 THEN <<>>
    ELSE LET r == next(h, rt, cur)
         IN  IF r.panic THEN <<r>> ELSE <<r>> \o nextTimes(h, rt, r.current, j - 1)

\* The node holding the greatest (the smallest) key of the tree.
Greatest(n) ==
    n \in TreeNodes /\ \A m \in TreeNodes \ {n} : KeyBefore(nodes[m].key, nodes[n].key)

Least(n) ==
    n \in TreeNodes /\ \A m \in TreeNodes \ {n} : KeyBefore(nodes[n].key, nodes[m].key)

\* C8: on a tree of n >= 1 keys, Begin and then n-1 calls of Next visit all n
\* keys exactly once, in strictly ascending order under the tree's comparator,
\* and each of these calls of Next returns true.
C8_ForwardWalk ==
    root # NIL =>
        LET n == Cardinality(TreeNodes)
            b == begin(nodes, root, NIL)
            w == nextTimes(nodes, root, b.current, n - 1)
            at == <<b.current>> \o [i \in 1 .. Len(w) |-> w[i].current]
        IN  /\ ~b.panic
            /\ Len(w) = n - 1
            /\ \A i \in 1 .. Len(w) : w[i].ok /\ ~w[i].panic
            /\ {at[i] : i \in 1 .. Len(at)} = TreeNodes
            /\ \A i \in 1 .. (Len(at) - 1) :
                   /\ at[i] # NIL /\ at[i + 1] # NIL
                   /\ KeyBefore(nodes[at[i]].key, nodes[at[i + 1]].key)

\* An iterator over a tree of three keys under the custom comparator has
\* stepped with Next, which returned true, onto the greatest key, and that key
\* is not the greatest in the natural order.
C8_Witness ==
    /\ it /\ ~panicked
    /\ comparator = "func"
    /\ Cardinality(TreeNodes) = 3
    /\ current # NIL /\ Greatest(current)
    /\ ret.op = "Next" /\ ret.ok
    /\ \E m \in TreeNodes : nodes[current].key < nodes[m].key

\* C9: on every non-empty tree (any size, 1 and 2 keys included), Next called
\* at the element with the greatest key returns false and leaves the iterator
\* off the end.
C9_NextAtGreatestStep ==
    (IteratorNext /\ current # NIL /\ Greatest(current))
    => /\ ~panicked'
       /\ current' = NIL
       /\ ret' = [op |-> "Next", ok |-> FALSE, value |-> 0]

C9_NextAtGreatest == [][C9_NextAtGreatestStep]_vars

\* C10: on every non-empty tree (a single key included), Prev called at the
\* element with the smallest key returns false and leaves the iterator off the
\* end; called at any other element it returns true and moves to the in-order
\* predecessor.
C10_PrevStep ==
    (IteratorPrev /\ current # NIL /\ current \in TreeNodes)
    => /\ ~panicked'
       /\ IF Least(current)
          THEN /\ current' = NIL
               /\ ret' = [op |-> "Prev", ok |-> FALSE, value |-> 0]
          ELSE /\ ret' = [op |-> "Prev", ok |-> TRUE, value |-> 0]
               /\ current' \in TreeNodes
               /\ KeyBefore(nodes[current'].key, nodes[current].key)
               /\ \A m \in TreeNodes :
                      KeyBefore(nodes[m].key, nodes[current].key)
                      => m = current' \/ KeyBefore(nodes[m].key, nodes[current'].key)

C10_Prev == [][C10_PrevStep]_vars

\* The outcomes of the calls of Next (fwd) or Prev (~fwd) made from position
\* cur until one returns false or dereferences nil, at most fuel calls.
RECURSIVE stepsUntilFalse(_, _, _, _, _)
stepsUntilFalse(h, rt, cur, fwd, fuel) ==
    IF fuel = 0 THEN <<>>
    ELSE LET r == IF fwd THEN next(h, rt, cur) ELSE prev(h, rt, cur)
         IN  IF r.panic \/ ~r.ok THEN <<r>>
             ELSE <<r>> \o stepsUntilFalse(h, rt, r.current, fwd, fuel - 1)

\* A full iteration: from position b (of Begin or of Last), step until false.
\* keys: the keys visited; done: the last call returned false without a fault.
Iteration(b, fwd) ==
    LET w == stepsUntilFalse(nodes, root, b.current, fwd, Cardinality(TreeNodes) + 1)
        visited == <<b.current>> \o [i \in 1 .. (Len(w) - 1) |-> w[i].current]
    IN  [keys |-> [i \in 1 .. Len(visited) |-> nodes[visited[i]].key],
         done |-> ~b.panic /\ ~w[Len(w)].panic /\ ~w[Len(w)].ok]

Reverse(q) == [i \in 1 .. Len(q) |-> q[Len(q) + 1 - i]]

\* C11: on every non-empty tree, Begin and then Next until it returns false,
\* followed by Last and then Prev until it returns false, yield two sequences
\* of keys over the same set of keys, the second the reverse of the first.
C11_ForwardThenBackward ==
    root # NIL =>
        LET f == Iteration(begin(nodes, root, NIL), TRUE)
            b == Iteration(last(nodes, root, NIL), FALSE)
        IN  /\ f.done /\ b.done
            /\ {f.keys[i] : i \in 1 .. Len(f.keys)} = {b.keys[i] : i \in 1 .. Len(b.keys)}
            /\ b.keys = Reverse(f.keys)

\* C12: on a non-empty tree with the iterator off the end (after End, after a
\* Next or a Prev that returned false), Next returns true and moves to the
\* smallest key, and Prev returns true and moves to the greatest key.
C12_WrapStep ==
    /\ (IteratorNext /\ current = NIL /\ root # NIL)
       => /\ ~panicked'
          /\ Least(current')
          /\ ret' = [op |-> "Next", ok |-> TRUE, value |-> 0]
    /\ (IteratorPrev /\ current = NIL /\ root # NIL)
       => /\ ~panicked'
          /\ Greatest(current')
          /\ ret' = [op |-> "Prev", ok |-> TRUE, value |-> 0]

C13_NoFault ==
    ~panicked

\* ---- construction --------------------------------------------------------
\* C14: a tree constructed with WithComparer orders two keys a and b by a's
\* own CompareTo(b): after Insert calls with pairwise distinct keys, Search of
\* each inserted key returns (its value, true) and the BST ordering holds.
C14_ComparerRoundTrip ==
    (comparator = "comparer" /\ DistinctInserts) =>
        /\ \A k \in InsertedKeys :
               searchFrom(nodes, root, k) = [value |-> written[k], ok |-> TRUE]
        /\ \A n \in TreeNodes :
               /\ \A m \in Subtree(nodes, nodes[n].left) :
                      CompareTo(nodes[m].key, nodes[n].key) < 0
               /\ \A m \in Subtree(nodes, nodes[n].right) :
                      CompareTo(nodes[m].key, nodes[n].key) > 0

\* C15: NewWithComparator returns an error and no container exactly when no
\* comparator is set once all the options given have been applied (no option,
\* or the last one stores a nil comparator); otherwise it returns no error and
\* a usable empty container.
C15_ConstructStep ==
    \A opts \in OptSeqs :
        NewWithComparator(opts) =>
            IF opts = <<>> \/ opts[Len(opts)] = WithCompareFunc("nil")
            THEN /\ ~ret'.ok
                 /\ comparator' = "nil"
            ELSE /\ ret'.ok
                 /\ comparator' = opts[Len(opts)].comparator
                 /\ root' = NIL /\ length' = 0

C15_Construct == [][C15_ConstructStep]_vars

\* NewWithComparator has returned an error and no container.
C15_Witness ==
    /\ ret = [op |-> "NewWithComparator", ok |-> FALSE, value |-> 0]
    /\ comparator = "nil"

C17_LengthCountsNodes ==
    /\ length = Cardinality(TreeNodes)
    /\ ret.op = "Length" => ret.value = Cardinality(TreeNodes)

\* ---- Key and Value ---------------------------------------------------------
\* C18: Key() and Value() return the key and the value of the node the
\* iterator is at, and the zero value of their type when it is off the end.
C18_KeyValue ==
    /\ ret.op = "Key" =>
           IF current = NIL THEN ret.value = ZeroKey
           ELSE current \in TreeNodes /\ ret.value = nodes[current].key
    /\ ret.op = "Value" =>
           IF current = NIL THEN ret.value = ZeroVal
           ELSE current \in TreeNodes /\ ret.value = nodes[current].value

\* Value has returned the zero value off the end of a tree of three keys.
C18_Witness ==
    /\ it /\ ~panicked
    /\ Cardinality(TreeNodes) = 3
    /\ current = NIL
    /\ ret = [op |-> "Value", ok |-> FALSE, value |-> ZeroVal]

\* ---- what the operations leave alone ---------------------------------------
\* C19: Search(k) leaves the root, every node's key, value, color, child and
\* parent links, and the element count as they were, for every key and tree.
C19_SearchFrameStep ==
    ret'.op = "Search" =>
        /\ nodes' = nodes
        /\ root' = root
        /\ length' = length

C19_SearchFrame == [][C19_SearchFrameStep]_vars

\* Search has returned not found on a tree of three keys.
C19_Witness ==
    /\ Cardinality(TreeNodes) = 3
    /\ ret = [op |-> "Search", ok |-> FALSE, value |-> ZeroVal]

\* C20: Iterator, Begin, Last, End, Next, Prev, Key and Value leave the nodes,
\* their keys, values, colors and links, the root and the element count as
\* they were.
C20_IteratorFrameStep ==
    (\/ Iterator \/ IteratorBegin \/ IteratorLast \/ IteratorEnd
     \/ IteratorNext \/ IteratorPrev \/ IteratorKey \/ IteratorValue)
    => /\ nodes' = nodes
       /\ root' = root
       /\ length' = length

C20_IteratorFrame == [][C20_IteratorFrameStep]_vars

\* Prev has returned true on a tree of four keys and left the iterator at one.
C20_Witness ==
    /\ it /\ ~panicked
    /\ Cardinality(TreeNodes) = 4
    /\ current \in TreeNodes
    /\ ret = [op |-> "Prev", ok |-> TRUE, value |-> 0]

\* ---- the structure Insert maintains ----------------------------------------
\* C21: after every Insert the root has no parent and every present child c
\* of every node n has c.parent = n.
C21_ParentLinks ==
    root # NIL =>
        /\ nodes[root].parent = NIL
        /\ \A n \in TreeNodes :
               /\ nodes[n].left # NIL => nodes[nodes[n].left].parent = n
               /\ nodes[n].right # NIL => nodes[nodes[n].right].parent = n

\* A tree of four keys, three levels deep: the node at the third level has a
\* parent that is not the root.
C21_Witness ==
    /\ Cardinality(TreeNodes) = 4
    /\ \E n \in TreeNodes :
           /\ nodes[n].parent # NIL
           /\ nodes[n].parent # root
           /\ nodes[nodes[n].parent].parent = root

\* C22: Insert(k, v) with k equal under the comparator to a key present
\* creates no node, rotates nothing and flips no color: every node's key,
\* color and links and the root are as before; only that node's value and the
\* element count change (the stored key is kept).
C22_DuplicateStep ==
    calls' = calls + 1 =>
        \A k \in Keys, v \in Vals :
            (/\ written' = [written EXCEPT ![k] = v]
             /\ \E n \in TreeNodes : KeyEq(nodes[n].key, k)
             /\ Insert(k, v))
            => LET at == CHOOSE n \in TreeNodes : KeyEq(nodes[n].key, k)
               IN  /\ nodes' = [nodes EXCEPT ![at].value = v]
                   /\ root' = root
                   /\ length' = length + 1

C22_Duplicate == [][C22_DuplicateStep]_vars

\* A node of a three-key tree holds the value last inserted with another key
\* that compares equal to its own, and still holds its own key.
C22_Witness ==
    /\ Cardinality(TreeNodes) = 3
    /\ \E n \in TreeNodes, k \in InsertedKeys :
           /\ k # nodes[n].key
           /\ KeyEq(k, nodes[n].key)
           /\ written[k] = nodes[n].value
           /\ written[nodes[n].key] # nodes[n].value

\* C23: after any sequence of Insert calls the keys stored in the nodes
\* reachable from the root are the distinct keys (under the comparator) that
\* were inserted: none is missing, none was never inserted, none is stored
\* twice, and every node ever created is still in the tree.
C23_KeySet ==
    /\ \A k \in InsertedKeys : \E n \in TreeNodes : KeyEq(nodes[n].key, k)
    /\ \A n \in TreeNodes : nodes[n].key \in InsertedKeys
    /\ \A n, m \in TreeNodes : n # m => ~KeyEq(nodes[n].key, nodes[m].key)
    /\ Len(nodes) = Cardinality(TreeNodes)

\* Four keys were inserted under the custom comparator, two of them equal, and
\* the tree holds three nodes.
C23_Witness ==
    /\ comparator = "func"
    /\ Cardinality(InsertedKeys) = 4
    /\ Cardinality(TreeNodes) = 3

\* ---- the fixes of insert -----------------------------------------------------
\* The fixes made at one node, in order, from s (the heap and the node): each
\* with its kind, the heap before it and the node it is applied at.
fixesAt(s) ==
    LET fix(kind, before, after) ==
            IF after # before
            THEN <<[fix |-> kind, h |-> before.h, n |-> before.n]>>
            ELSE <<>>
        third(s2) == fix("flipColors", s2, fixFlip(s2))
        second(s1) == fix("rotateRight", s1, fixRight(s1)) \o third(fixRight(s1))
    IN  fix("rotateLeft", s, fixLeft(s)) \o second(fixLeft(s))

\* The fixes insert(h, cur, k, v) makes, deepest node first.
RECURSIVE fixes(_, _, _, _)
fixes(h, cur, k, v) ==
    IF cur = NIL THEN <<>>
    ELSE IF compare(k, h[cur].key) < 0
    THEN fixes(h, h[cur].left, k, v)
         \o fixesAt([h |-> attachLeft(insert(h, h[cur].left, k, v), cur), n |-> cur])
    ELSE IF compare(k, h[cur].key) > 0
    THEN fixes(h, h[cur].right, k, v)
         \o fixesAt([h |-> attachRight(insert(h, h[cur].right, k, v), cur), n |-> cur])
    ELSE fixesAt([h |-> [h EXCEPT ![cur].value = v], n |-> cur])

\* The fixes of every Insert that can be called next.
NextFixes ==
    UNION {{fixes(nodes, root, k, v)[i] : i \in 1 .. Len(fixes(nodes, root, k, v))} :
              k \in DOMAIN written, v \in {MaxVal}}

\* The keys of the subtree at n, in order.
RECURSIVE inorder(_, _)
inorder(h, n) ==
    IF n = NIL THEN <<>>
    ELSE inorder(h, h[n].left) \o <<h[n].key>> \o inorder(h, h[n].right)

\* The BLACK counts of the paths from n to its absent children, in order; acc
\* is the count above n.
RECURSIVE leafBlacks(_, _, _)
leafBlacks(h, n, acc) ==
    IF n = NIL THEN <<acc>>
    ELSE leafBlacks(h, h[n].left, acc + (IF h[n].color = black THEN 1 ELSE 0))
         \o leafBlacks(h, h[n].right, acc + (IF h[n].color = black THEN 1 ELSE 0))

\* What a rotation at e.n leaves: x is the child that goes up, r the outcome;
\* inner is the subtree of x that changes sides and outer the one it keeps.
Rotated(e, x, r, left) ==
    /\ r.n = x
    /\ IF left
       THEN /\ r.h[x].left = e.n
            /\ r.h[e.n].right = e.h[x].left
            /\ r.h[e.n].left = e.h[e.n].left
            /\ r.h[x].right = e.h[x].right
       ELSE /\ r.h[x].right = e.n
            /\ r.h[e.n].left = e.h[x].right
            /\ r.h[e.n].right = e.h[e.n].right
            /\ r.h[x].left = e.h[x].left
    /\ r.h[x].color = e.h[e.n].color
    /\ r.h[e.n].color = red
    /\ inorder(r.h, x) = inorder(e.h, e.n)
    /\ leafBlacks(r.h, x, 0) = leafBlacks(e.h, e.n, 0)

\* C24: rotateLeft at h with right child x leaves a subtree rooted at x with
\* x.left = h and h.right = the former left subtree of x, x with the former
\* color of h and h RED; rotateRight is the mirror image; each rotation keeps
\* the keys of the subtree in order and the BLACK count of every path through
\* it.  Stated of every rotation the next Insert makes.
C24_Rotations ==
    \A e \in NextFixes :
        /\ e.fix = "rotateLeft" =>
               Rotated(e, e.h[e.n].right, rotateLeft(e.h, e.n), TRUE)
        /\ e.fix = "rotateRight" =>
               Rotated(e, e.h[e.n].left, rotateRight(e.h, e.n), FALSE)

\* A tree of five keys on which an Insert rotates left and then right, below
\* the root.
C24_Witness ==
    /\ Cardinality(TreeNodes) = 5
    /\ \E l, r \in NextFixes :
           /\ l.fix = "rotateLeft" /\ l.h[l.n].parent # NIL
           /\ r.fix = "rotateRight" /\ r.h[r.n].parent # NIL

\* C25: whenever insert flips the colors at a node, the node is BLACK and both
\* its children are RED beforehand, and the flip leaves the node RED and both
\* children BLACK.
C25_Flips ==
    \A e \in NextFixes :
        e.fix = "flipColors" =>
            /\ e.h[e.n].color = black
            /\ isRed(e.h, e.h[e.n].left) /\ isRed(e.h, e.h[e.n].right)
            /\ LET g == flipColors(e.h, e.n)
               IN  /\ g[e.n].color = red
                   /\ g[g[e.n].left].color = black
                   /\ g[g[e.n].right].color = black

\* A tree of five keys on which an Insert flips the colors at a node that is
\* not the root.
C25_Witness ==
    /\ Cardinality(TreeNodes) = 5
    /\ \E e \in NextFixes : e.fix = "flipColors" /\ e.h[e.n].parent # NIL

\* ---- height -------------------------------------------------------------------
\* The number of nodes on the longest path from n down to an absent child.
RECURSIVE Height(_, _)
Height(h, n) ==
    IF n = NIL THEN 0
    ELSE 1 + (IF Height(h, h[n].left) >= Height(h, h[n].right)
              THEN Height(h, h[n].left) ELSE Height(h, h[n].right))

\* floor(log2(x)) for x >= 1
RECURSIVE Log2Floor(_)
Log2Floor(x) ==
    IF x < 2 THEN 0 ELSE 1 + Log2Floor(x \div 2)

\* C26: after any sequence of Insert calls leaving n nodes, every path from
\* the root down to an absent child has at most 2*floor(log2(n+1)) nodes.
C26_HeightBound ==
    Height(nodes, root) <= 2 * Log2Floor(Cardinality(TreeNodes) + 1)

\* A tree of six keys that is four nodes high: the bound is met.
C26_Witness ==
    /\ Cardinality(TreeNodes) = 6
    /\ Height(nodes, root) = 4
    /\ 2 * Log2Floor(Cardinality(TreeNodes) + 1) = 4

\* ---- packages redblack and rbtree ----------------------------------------------
\* C27: package redblack: after any sequence of Insert calls, those that rotate
\* right included, the keys reachable from the root are the distinct keys
\* inserted, each at a place consistent with the order of the keys.
C27_RedblackKeepsKeys ==
    /\ KeysPresent(nodes, root) = InsertedKeys
    /\ \A n \in TreeNodes :
           /\ \A m \in Subtree(nodes, nodes[n].left) : nodes[m].key < nodes[n].key
           /\ \A m \in Subtree(nodes, nodes[n].right) : nodes[m].key > nodes[n].key

\* The larger and the smaller of the heights of the two subtrees of n, the
\* height being the number of nodes on the longest downward path.
Taller(n) ==
    IF Height(nodes, nodes[n].left) >= Height(nodes, nodes[n].right)
    THEN Height(nodes, nodes[n].left) ELSE Height(nodes, nodes[n].right)

Shorter(n) ==
    IF Height(nodes, nodes[n].left) >= Height(nodes, nodes[n].right)
    THEN Height(nodes, nodes[n].right) ELSE Height(nodes, nodes[n].left)

\* C28: package rbtree: after every Insert, the heights of the left and the
\* right subtree of every node differ by at most 1.
C28_HeightsWithinOne ==
    \A n \in TreeNodes : Taller(n) - Shorter(n) <= 1
====
